---- MODULE Spec2Model ----
(***************************************************************************)
(* FutureCraft frontend: the mission profile, the structural validation    *)
(* panel (handleSimulation), the auto-optimization step (optimizeDesign)   *)
(* and the assembly (handleCompileAircraft) of routes/+page.svelte, the    *)
(* export panel of lib/components/ui/ExportPanel.svelte, with              *)
(* calculateAtmosphere of lib/utils/physics.ts and the material catalog    *)
(* of lib/data/materials.                                                  *)
(*                                                                         *)
(* Numbers are scaled to integers:                                         *)
(*   thickness      numerator over ThicknessDenominator (percent of chord) *)
(*   safety_factor  hundredths (1.5 is 150, 1.55 is 155)                   *)
(*   tempK          ten-thousandths of a kelvin (288.15 K is 2881500)      *)
(*   span, chord    decimetres                                             *)
(* The aircraft store, the api service and the backend analyzer are not    *)
(* part of the sources at hand; their definitions below follow the         *)
(* specification document and say so.                                      *)
(***************************************************************************)
EXTENDS Integers, Sequences, FiniteSets, TLC

VARIABLES
    aircraft,            \* $aircraft: wings / fuselage / engines, each a model or NoModel
    componentMaterials,  \* $componentMaterials: material id chosen per component
    missionProfile,      \* $missionProfile: altitude, speed, isContextApplied
    atmosphere,          \* $: atmosphere = calculateAtmosphere($missionProfile.altitude)
    isCompiling,         \* $isCompiling
    isSimulating,        \* let isSimulating
    simResult,           \* let simResult
    showContextToast,    \* let showContextToast
    contextToastText,    \* let contextToastText
    lastAlert,           \* the message of the last alert(...) shown
    simRequests,         \* apiService.runSimulation calls awaiting their response
    optRequests,         \* apiService.updateParameters calls of optimizeDesign awaiting theirs
    resultInputs,        \* history: the request whose response simResult holds
    viewMode,            \* let viewMode: 'edit' | 'assembly'
    compiledAircraft,    \* $compiledAircraft: the assembled aircraft or NoModel
    currentModel,        \* $currentModel of lib/stores/modelStore
    compileRequests,     \* apiService.compileAircraft calls awaiting their response
    isExporting,         \* let isExporting of the mounted ExportPanel
    exportRequests       \* apiService.exportModel calls awaiting their response

\* the export panel, the view and the compile calls
panelVars == << viewMode, compileRequests, isExporting, exportRequests >>
\* all that the assembly and export controls work on
assemblyVars == << compiledAircraft, currentModel, panelVars >>

vars == << aircraft, componentMaterials, missionProfile, atmosphere, isCompiling,
           isSimulating, simResult, showContextToast, contextToastText, lastAlert,
           simRequests, optRequests, resultInputs, viewMode, compiledAircraft,
           currentModel, compileRequests, isExporting, exportRequests >>

\* null and undefined, as records so that they compare with records
NoModel == [name |-> "null"]
NoResult == [status |-> "null"]
NoInputs == [thickness |-> 0]

----------------------------------------------------------------------------
(* Bounds of the model *)

\* thickness t is stored as the integer t * ThicknessDenominator
ThicknessDenominator == 2

\* at most this many requests of one kind are awaited at a time
MaxInFlight == 2
\* exportModel calls awaited at a time
MaxExports == 1

----------------------------------------------------------------------------
(* lib/data/materials *)

MATERIALS ==
    << [id |-> "al7075",    density |-> 2810, yieldStrength |-> 503],
       [id |-> "ti6al4v",   density |-> 4430, yieldStrength |-> 880],
       [id |-> "cf_epoxy",  density |-> 1600, yieldStrength |-> 600],
       [id |-> "steel4340", density |-> 7850, yieldStrength |-> 1620],
       [id |-> "al2024",    density |-> 2780, yieldStrength |-> 345] >>

\* MATERIALS.find(m => m.id === matId) || MATERIALS[0]
FindMaterial(matId) ==
    IF \E i \in 1..Len(MATERIALS) : MATERIALS[i].id = matId
    THEN MATERIALS[CHOOSE i \in 1..Len(MATERIALS) :
                      /\ MATERIALS[i].id = matId
                      /\ \A j \in 1..(i - 1) : MATERIALS[j].id # matId]
    ELSE MATERIALS[1]

----------------------------------------------------------------------------
(* lib/utils/physics.ts *)

SeaLevelTemp == 2881500
LapseRate == 65
TropopauseAltitude == 11000
StratosphereTemp == 2166500

AboveLow_Inclusive(altitudeMeters) == altitudeMeters >= 5000
AboveLow(altitudeMeters) == altitudeMeters > 5000
AboveMedium(altitudeMeters) == altitudeMeters > 10000
AboveHigh(altitudeMeters) == altitudeMeters > 18000

\* let zone = 'LOW ALTITUDE'; three successive overwriting ifs
Zone(altitudeMeters) ==
    LET z0 == "LOW ALTITUDE"
        z1 == IF AboveLow(altitudeMeters) THEN "MEDIUM ALTITUDE" ELSE z0
        z2 == IF AboveMedium(altitudeMeters) THEN "HIGH ALTITUDE" ELSE z1
        z3 == IF AboveHigh(altitudeMeters) THEN "STRATOSPHERE" ELSE z2
    IN z3

\* the lapse applied up to 12000 m
TempK_LateTropopause(altitudeMeters) ==
    IF altitudeMeters <= TropopauseAltitude + 1000
    THEN SeaLevelTemp - LapseRate * altitudeMeters
    ELSE StratosphereTemp

\* the lapse applied at every altitude, the isothermal branch forgotten
TempK_AlwaysLapse(altitudeMeters) == SeaLevelTemp - LapseRate * altitudeMeters

TempK(altitudeMeters) ==
    IF altitudeMeters <= TropopauseAltitude
    THEN SeaLevelTemp - LapseRate * altitudeMeters
    ELSE StratosphereTemp

calculateAtmosphere(altitudeMeters) ==
    [tempK |-> TempK(altitudeMeters), zone |-> Zone(altitudeMeters)]

----------------------------------------------------------------------------
(* optimizeDesign: the new thickness (routes/+page.svelte, steps 1 to 5) *)

TargetSF == 155          \* const targetSF = 1.55
MaxThickness == 25       \* if (newThickness > 25) newThickness = 25
MinBump == 2             \* newThickness = currentThickness + 2
PassThreshold == 150     \* safety_factor < 1.5

D == ThicknessDenominator

\* currentThickness * Math.sqrt(targetSF / currentSF) > 25, both sides squared:
\* (th/D)^2 * (155/sf) > 25^2.  sf > 0, th > 0.
RawExceedsCap(th, sf) == th * th * TargetSF > MaxThickness * MaxThickness * D * D * sf

\* currentThickness * Math.sqrt(ratio) < currentThickness, i.e. ratio < 1
RawBelowCurrent(th, sf) == TargetSF < sf

\* Math.floor(currentThickness * Math.sqrt(ratio)) for a value that is at most 25:
\* the largest n with n^2 <= (th/D)^2 * (155/sf).  For sf below 155 the product
\* is never an integer (155 is square-free), so the floor of the double and
\* the floor of the exact value agree.
\* Math.ceil in the place of Math.floor
FloorRaw_Ceil(th, sf) ==
    CHOOSE n \in 0..(MaxThickness + 1) :
        /\ n * n * D * D * sf >= th * th * TargetSF
        /\ (n = 0 \/ (n - 1) * (n - 1) * D * D * sf < th * th * TargetSF)

FloorRaw(th, sf) ==
    CHOOSE n \in 0..MaxThickness :
        /\ n * n * D * D * sf <= th * th * TargetSF
        /\ (n + 1) * (n + 1) * D * D * sf > th * th * TargetSF

\* Lines 163-170 in their order: scale, cap, minimum bump, Math.floor.
\* th is the current thickness (numerator over D), sf the current safety
\* factor in hundredths; the result is the integer newThickness.
NewThickness(th, sf) ==
    LET capped == RawExceedsCap(th, sf)
        \* newThickness < currentThickness, evaluated after the cap
        below == IF capped THEN MaxThickness * D < th ELSE RawBelowCurrent(th, sf)
    IN IF below THEN (th + MinBump * D) \div D
       ELSE IF capped THEN MaxThickness
       ELSE FloorRaw(th, sf)

----------------------------------------------------------------------------
(* The backend analyzer behind apiService.runSimulation, after section 4.3 *)
(* of the specification document: safety factor = yield / max stress, max  *)
(* stress proportional to load / thickness^2, load proportional to         *)
(* density(altitude) * speed^2 * span / rootChord.                         *)

AirDensity(altitude) ==
    IF altitude < 5000 THEN 1000
    ELSE IF altitude < 10000 THEN 600
    ELSE IF altitude < 18000 THEN 300
    ELSE 100

Max(a, b) == IF a >= b THEN a ELSE b

Load(req) ==
    Max(1, (AirDensity(req.altitude) * (req.speed \div 10) * (req.speed \div 10) * req.span)
              \div (6250 * req.rootChord))

SafetyFactor(req) ==
    (req.materialYield * req.thickness * req.thickness) \div (D * D * Load(req))

StatusOf(sf) == IF sf >= PassThreshold THEN "PASS" ELSE "FAIL"

Analyze(req) ==
    [success |-> TRUE, status |-> StatusOf(SafetyFactor(req)),
     safety_factor |-> SafetyFactor(req)]

----------------------------------------------------------------------------
(* Values the session draws its inputs from *)

COMPONENTS == {"wings", "fuselage", "engines"}

\* min="500" max="25000" step="500" of the altitude slider; the store may
\* start anywhere in the documented range [0, 25000]
AltitudeStep == 500
AltitudeMax == 25000
AltitudeGrid == {k * AltitudeStep : k \in 0..(AltitudeMax \div AltitudeStep)}
AltitudeSlider == AltitudeGrid \ {0}

\* min="50" max="1000" step="10" of the speed slider
SpeedMin == 50
SpeedMax == 1000
SpeedStep == 10
SpeedSlider == {SpeedMin + k * SpeedStep : k \in 0..((SpeedMax - SpeedMin) \div SpeedStep)}

\* the slider positions the structural session visits
SessionAltitudes == {1000, 10000}
SessionSpeeds == {250, 900}
SessionMaterials == {"al7075", "steel4340"}
SessionThicknesses == {12 * D, 25 * D}

\* Wing of scenario A (span 2.0 m, root chord 0.5 m, tip chord 0.3 m, sweep 20)
WingParameters(th) ==
    [span |-> 20, rootChord |-> 5, tipChord |-> 3, sweepAngle |-> 20, thickness |-> th]

WingModel(th) == [name |-> "wings", parameters |-> WingParameters(th)]
PartModel(c) == [name |-> c]

----------------------------------------------------------------------------
(* lib/stores/aircraftStore, after the specification document *)

\* $allComponentsComplete: every component has a model
allComponentsComplete == \A c \in COMPONENTS : aircraft[c].model # NoModel

\* setComponentModel(type, model): the component's model is replaced and the
\* assembled aircraft, if any, is invalidated
setComponentModel(type, model) ==
    /\ aircraft' = [aircraft EXCEPT ![type] = [model |-> model]]
    /\ compiledAircraft' = NoModel

\* $isAssemblyReady: there is something to assemble
isAssemblyReady == \E c \in COMPONENTS : aircraft[c].model # NoModel

\* the model compileAircraft answers with: the assembly of the models it was sent
CompiledModel(snapshot) ==
    [name |-> "aircraft", parts |-> [c \in COMPONENTS |-> snapshot[c].model]]

\* routes/+page.svelte imports aircraft, activeComponent, completionStatus,
\* isAssemblyReady, allComponents, allComponentsComplete, compiledAircraft,
\* isCompiling, missionProfile and componentMaterials from the store, and not
\* setComponentModel: the call at line 203 throws a ReferenceError.
setComponentModelImported == FALSE

\* isCompiling is an import binding of the page, and optimizeDesign assigns to
\* it (isCompiling = true).  Depending on how the page was built the
\* assignment either throws a TypeError or takes effect on the flag the
\* compile button reads.
ImportAssignmentOutcomes == {"throws", "assigns"}

----------------------------------------------------------------------------
(* Initial state *)

TypeOK ==
    /\ isCompiling \in BOOLEAN
    /\ isSimulating \in BOOLEAN
    /\ showContextToast \in BOOLEAN
    /\ Len(simRequests) <= MaxInFlight
    /\ Len(optRequests) <= MaxInFlight

InitWith(altitudes, speeds, materials) ==
    /\ aircraft = [c \in COMPONENTS |-> [model |-> NoModel]]
    /\ componentMaterials \in {[wings |-> m] : m \in materials}
    /\ missionProfile \in {[altitude |-> a, speed |-> v, isContextApplied |-> FALSE] :
                              a \in altitudes, v \in speeds}
    /\ atmosphere = calculateAtmosphere(missionProfile.altitude)
    /\ isCompiling = FALSE
    /\ isSimulating = FALSE
    /\ simResult = NoResult
    /\ showContextToast = FALSE
    /\ contextToastText = [text |-> "", zone |-> ""]
    /\ lastAlert = "none"
    /\ simRequests = << >>
    /\ optRequests = << >>
    /\ resultInputs = NoInputs
    /\ viewMode = "edit"
    /\ compiledAircraft = NoModel
    /\ currentModel = NoModel
    /\ compileRequests = << >>
    /\ isExporting = FALSE
    /\ exportRequests = << >>

Init == InitWith(SessionAltitudes, SessionSpeeds, SessionMaterials)

----------------------------------------------------------------------------
(* Component editor and material picker (not in the sources at hand) *)

GenerateComponent(c, th) ==
    /\ aircraft[c].model = NoModel
    /\ setComponentModel(c, IF c = "wings" THEN WingModel(th) ELSE PartModel(c))
    /\ currentModel' = IF c = "wings" THEN WingModel(th) ELSE PartModel(c)
    /\ UNCHANGED << componentMaterials, missionProfile, atmosphere, isCompiling,
                    isSimulating, simResult, showContextToast, contextToastText,
                    lastAlert, simRequests, optRequests, resultInputs,
                    panelVars >>

EditWingThickness(th) ==
    /\ aircraft.wings.model # NoModel
    /\ aircraft.wings.model.parameters.thickness # th
    /\ setComponentModel("wings", WingModel(th))
    /\ currentModel' = WingModel(th)
    /\ UNCHANGED << componentMaterials, missionProfile, atmosphere, isCompiling,
                    isSimulating, simResult, showContextToast, contextToastText,
                    lastAlert, simRequests, optRequests, resultInputs,
                    panelVars >>

SelectMaterial(m) ==
    /\ componentMaterials.wings # m
    /\ componentMaterials' = [componentMaterials EXCEPT !.wings = m]
    /\ UNCHANGED << aircraft, missionProfile, atmosphere, isCompiling,
                    isSimulating, simResult, showContextToast, contextToastText,
                    lastAlert, simRequests, optRequests, resultInputs,
                    assemblyVars >>

----------------------------------------------------------------------------
(* Mission profile controls *)

\* the slider writing a fresh profile object instead of one field
SetAltitude_FreshProfile(a) ==
    /\ missionProfile.altitude # a
    /\ missionProfile' = [altitude |-> a, speed |-> missionProfile.speed,
                          isContextApplied |-> FALSE]
    /\ atmosphere' = calculateAtmosphere(a)
    /\ UNCHANGED << aircraft, componentMaterials, isCompiling, isSimulating, simResult,
                    showContextToast, contextToastText, lastAlert, simRequests,
                    optRequests, resultInputs, assemblyVars >>

\* bind:value={$missionProfile.altitude}, then $: atmosphere = ...
SetAltitude(a) ==
    /\ missionProfile.altitude # a
    /\ missionProfile' = [missionProfile EXCEPT !.altitude = a]
    /\ atmosphere' = calculateAtmosphere(a)
    /\ UNCHANGED << aircraft, componentMaterials, isCompiling, isSimulating, simResult,
                    showContextToast, contextToastText, lastAlert, simRequests,
                    optRequests, resultInputs,
                    assemblyVars >>

\* bind:value={$missionProfile.speed}
SetSpeed(v) ==
    /\ missionProfile.speed # v
    /\ missionProfile' = [missionProfile EXCEPT !.speed = v]
    /\ UNCHANGED << aircraft, componentMaterials, atmosphere, isCompiling, isSimulating,
                    simResult, showContextToast, contextToastText, lastAlert,
                    simRequests, optRequests, resultInputs,
                    assemblyVars >>

applyContext ==
    /\ missionProfile' = [missionProfile EXCEPT !.isContextApplied = TRUE]
    /\ contextToastText' = [text |-> "Mission Profile Applied", zone |-> atmosphere.zone]
    /\ showContextToast' = TRUE
    /\ UNCHANGED << aircraft, componentMaterials, atmosphere, isCompiling, isSimulating,
                    simResult, lastAlert, simRequests, optRequests, resultInputs,
                    assemblyVars >>

\* setTimeout(() => { showContextToast = false; }, ...)
HideToast ==
    /\ showContextToast
    /\ showContextToast' = FALSE
    /\ UNCHANGED << aircraft, componentMaterials, missionProfile, atmosphere,
                    isCompiling, isSimulating, simResult, contextToastText, lastAlert,
                    simRequests, optRequests, resultInputs,
                    assemblyVars >>

----------------------------------------------------------------------------
(* Structural validation: handleSimulation *)

\* the density read from the first catalog entry, the yield from the selected one
SimulationRequest_DefaultDensity ==
    LET wingParams == aircraft.wings.model.parameters
        material == FindMaterial(componentMaterials.wings)
    IN [materialYield |-> material.yieldStrength,
        materialDensity |-> MATERIALS[1].density,
        altitude |-> missionProfile.altitude,
        speed |-> missionProfile.speed,
        span |-> wingParams.span,
        rootChord |-> wingParams.rootChord,
        thickness |-> wingParams.thickness]

\* the object literal passed to apiService.runSimulation
SimulationRequest ==
    LET wingParams == aircraft.wings.model.parameters
        material == FindMaterial(componentMaterials.wings)
    IN [materialYield |-> material.yieldStrength,
        materialDensity |-> material.density,
        altitude |-> missionProfile.altitude,
        speed |-> missionProfile.speed,
        span |-> wingParams.span,
        rootChord |-> wingParams.rootChord,
        thickness |-> wingParams.thickness]

\* the inputs a result shown now would have to come from
CurrentInputs ==
    IF aircraft.wings.model = NoModel THEN NoInputs ELSE SimulationRequest

\* isSimulating = true moved above the wings test
handleSimulation_FlagFirst ==
    IF aircraft.wings.model = NoModel
    THEN /\ lastAlert' = "Please generate wings first."
         /\ isSimulating' = TRUE
         /\ UNCHANGED << aircraft, componentMaterials, missionProfile, atmosphere,
                         isCompiling, simResult, showContextToast,
                         contextToastText, simRequests, optRequests, resultInputs,
                         assemblyVars >>
    ELSE /\ Len(simRequests) < MaxInFlight
         /\ isSimulating' = TRUE
         /\ simResult' = NoResult
         /\ resultInputs' = NoInputs
         /\ simRequests' = Append(simRequests, SimulationRequest)
         /\ UNCHANGED << aircraft, componentMaterials, missionProfile, atmosphere,
                         isCompiling, showContextToast, contextToastText, lastAlert,
                         optRequests, assemblyVars >>

\* handleSimulation up to its await
handleSimulation ==
    IF aircraft.wings.model = NoModel
    THEN /\ lastAlert' = "Please generate wings first."
         /\ UNCHANGED << aircraft, componentMaterials, missionProfile, atmosphere,
                         isCompiling, isSimulating, simResult, showContextToast,
                         contextToastText, simRequests, optRequests, resultInputs,
                    assemblyVars >>
    ELSE /\ Len(simRequests) < MaxInFlight
         /\ isSimulating' = TRUE
         /\ simResult' = NoResult
         /\ resultInputs' = NoInputs
         /\ simRequests' = Append(simRequests, SimulationRequest)
         /\ UNCHANGED << aircraft, componentMaterials, missionProfile, atmosphere,
                         isCompiling, showContextToast, contextToastText, lastAlert,
                         optRequests,
                    assemblyVars >>

\* the run button without disabled={isSimulating || ...}'s first operand
RunButtonEnabled_IgnoresSimulating ==
    /\ simResult = NoResult
    /\ allComponentsComplete

\* the run button also disabled while the export panel awaits a call
RunButtonEnabled_NotExporting ==
    /\ simResult = NoResult
    /\ ~isSimulating
    /\ allComponentsComplete
    /\ ~isExporting

\* {#if !simResult} ... disabled={isSimulating || !$allComponentsComplete}
RunButtonEnabled ==
    /\ simResult = NoResult
    /\ ~isSimulating
    /\ allComponentsComplete

ClickRunStressAnalysis == RunButtonEnabled /\ handleSimulation

RemoveAt(q, i) == [k \in 1..(Len(q) - 1) |-> IF k < i THEN q[k] ELSE q[k + 1]]

\* the outcomes of an awaited api call
ApiOutcomes == {"success", "failure", "throws"}

\* what a successful response is stored as (simResult = result)
StoredResult(result) == result

\* simResult = result placed before the test of result.success
SimulationResponse_StoresFailed(i, outcome) ==
    LET req == simRequests[i]
        result == Analyze(req)
    IN /\ simRequests' = RemoveAt(simRequests, i)
       /\ IF outcome = "throws"
          THEN /\ lastAlert' = "Simulation error"
               /\ UNCHANGED << simResult, resultInputs >>
          ELSE /\ simResult' = [result EXCEPT !.success = (outcome = "success")]
               /\ resultInputs' = req
               /\ lastAlert' = IF outcome = "failure" THEN "Simulation failed"
                               ELSE lastAlert
       /\ isSimulating' = FALSE
       /\ UNCHANGED << aircraft, componentMaterials, missionProfile, atmosphere,
                       isCompiling, showContextToast, contextToastText, optRequests,
                       assemblyVars >>

\* handleSimulation from the await on: the response of request i arrives
SimulationResponse(i, outcome) ==
    LET req == simRequests[i]
        result == Analyze(req)
    IN /\ simRequests' = RemoveAt(simRequests, i)
       /\ IF outcome = "success"
          THEN /\ simResult' = StoredResult(result)
               /\ resultInputs' = req
               /\ UNCHANGED lastAlert
          ELSE /\ lastAlert' = IF outcome = "failure" THEN "Simulation failed"
                               ELSE "Simulation error"
               /\ UNCHANGED << simResult, resultInputs >>
       /\ isSimulating' = FALSE
       /\ UNCHANGED << aircraft, componentMaterials, missionProfile, atmosphere,
                       isCompiling, showContextToast, contextToastText, optRequests,
                    assemblyVars >>

\* on:click={() => simResult = null}, shown with a result
ClickRunNewSimulation ==
    /\ simResult # NoResult
    /\ simResult' = NoResult
    /\ resultInputs' = NoInputs
    /\ UNCHANGED << aircraft, componentMaterials, missionProfile, atmosphere,
                    isCompiling, isSimulating, showContextToast, contextToastText,
                    lastAlert, simRequests, optRequests,
                    assemblyVars >>

----------------------------------------------------------------------------
(* Auto-optimization: optimizeDesign *)

\* if (!simResult || simResult.status === 'PASS' || !$aircraft.wings.model) return;
OptimizeReturnsEarly_NoStatusTest ==
    \/ simResult = NoResult
    \/ aircraft.wings.model = NoModel
OptimizeReturnsEarly ==
    \/ simResult = NoResult
    \/ simResult.status = "PASS"
    \/ aircraft.wings.model = NoModel

\* const newParams = { ...currentParams, thickness: newThickness }
NewParams ==
    LET currentParams == aircraft.wings.model.parameters
    IN [currentParams EXCEPT
           !.thickness = NewThickness(currentParams.thickness, simResult.safety_factor) * D]

\* optimizeDesign up to its await
optimizeDesign ==
    IF OptimizeReturnsEarly
    THEN UNCHANGED vars
    ELSE /\ lastAlert' = "AI OPTIMIZATION"
         /\ \E outcome \in ImportAssignmentOutcomes :
               IF outcome = "throws"
               THEN UNCHANGED << isCompiling, optRequests >>
               ELSE /\ Len(optRequests) < MaxInFlight
                    /\ isCompiling' = TRUE
                    /\ optRequests' = Append(optRequests, NewParams)
         /\ UNCHANGED << aircraft, componentMaterials, missionProfile, atmosphere,
                         isSimulating, simResult, showContextToast, contextToastText,
                         simRequests, resultInputs,
                    assemblyVars >>

\* class "danger" of the safety factor: simResult.safety_factor < 1.5
DangerShown_Inclusive == simResult # NoResult /\ simResult.safety_factor <= PassThreshold
DangerShown == simResult # NoResult /\ simResult.safety_factor < PassThreshold

\* {#if simResult.status === 'FAIL'} inside the {:else} of {#if !simResult}
OptimizeButtonShown ==
    /\ simResult # NoResult
    /\ simResult.status = "FAIL"

ClickOptimize == OptimizeButtonShown /\ optimizeDesign

\* what optimizeDesign stores in simResult after a successful update
ResultAfterUpdate == NoResult

\* optimizeDesign marking the displayed result as passed once the update
\* succeeded, before it refreshes the store
UpdateResponse_MarksPass(i, outcome) ==
    /\ optRequests' = RemoveAt(optRequests, i)
    /\ simResult' = IF outcome = "success" /\ simResult # NoResult
                    THEN [simResult EXCEPT !.status = "PASS"]
                    ELSE simResult
    /\ isCompiling' = FALSE
    /\ UNCHANGED << aircraft, componentMaterials, missionProfile, atmosphere,
                    isSimulating, showContextToast, contextToastText, lastAlert,
                    simRequests, resultInputs,
                    assemblyVars >>

\* optimizeDesign without its finally block: the flag is cleared on the
\* success path only
UpdateResponse_NoFinally(i, outcome) ==
    /\ optRequests' = RemoveAt(optRequests, i)
    /\ isCompiling' = IF outcome = "success" THEN FALSE ELSE isCompiling
    /\ UNCHANGED << aircraft, componentMaterials, missionProfile, atmosphere,
                    isSimulating, simResult, showContextToast, contextToastText,
                    lastAlert, simRequests, resultInputs, assemblyVars >>

\* optimizeDesign from the await on: the response of request i arrives
UpdateResponse(i, outcome) ==
    LET newParams == optRequests[i]
        \* response.model on success: the wings regenerated from newParams
        model == [name |-> "wings", parameters |-> newParams]
    IN /\ optRequests' = RemoveAt(optRequests, i)
       /\ IF outcome = "success" /\ setComponentModelImported
          THEN /\ setComponentModel("wings", model)
               /\ simResult' = ResultAfterUpdate
               /\ resultInputs' = NoInputs
               /\ contextToastText' = [text |-> "Optimization Applied. Re-run simulation.",
                                       zone |-> ""]
               /\ showContextToast' = TRUE
          ELSE UNCHANGED << aircraft, compiledAircraft, simResult, resultInputs,
                            contextToastText, showContextToast >>
       /\ isCompiling' = FALSE
       /\ UNCHANGED << componentMaterials, missionProfile, atmosphere, isSimulating,
                       lastAlert, simRequests,
                    currentModel, panelVars >>

----------------------------------------------------------------------------
(* View mode, assembly: selectComponent, goToAssembly, handleCompileAircraft *)

\* the export panel is rendered in the assembly view only: leaving the view
\* destroys it, and the calls it awaits end in a panel nobody sees
Unmounted(requests) ==
    [k \in 1..Len(requests) |-> [requests[k] EXCEPT !.mounted = FALSE]]

\* selectComponent(type): viewMode = 'edit'
selectComponent ==
    /\ viewMode' = "edit"
    /\ isExporting' = FALSE
    /\ exportRequests' = Unmounted(exportRequests)
    /\ UNCHANGED << aircraft, componentMaterials, missionProfile, atmosphere,
                    isCompiling, isSimulating, simResult, showContextToast,
                    contextToastText, lastAlert, simRequests, optRequests,
                    resultInputs, compiledAircraft, currentModel, compileRequests >>

\* goToAssembly, behind disabled={!canAssemble}; a panel mounted by it starts
\* with isExporting = false
goToAssembly ==
    /\ isAssemblyReady
    /\ viewMode' = "assembly"
    /\ UNCHANGED << aircraft, componentMaterials, missionProfile, atmosphere,
                    isCompiling, isSimulating, simResult, showContextToast,
                    contextToastText, lastAlert, simRequests, optRequests,
                    resultInputs, compiledAircraft, currentModel, compileRequests,
                    isExporting, exportRequests >>

\* $: canCompile = $allComponentsComplete && !$compiledAircraft
canCompile == allComponentsComplete /\ compiledAircraft = NoModel

\* handleCompileAircraft up to its await
handleCompileAircraft ==
    /\ Len(compileRequests) < MaxInFlight
    /\ isCompiling' = TRUE
    /\ compileRequests' = Append(compileRequests, aircraft)
    /\ UNCHANGED << aircraft, componentMaterials, missionProfile, atmosphere,
                    isSimulating, simResult, showContextToast, contextToastText,
                    lastAlert, simRequests, optRequests, resultInputs, viewMode,
                    compiledAircraft, currentModel, isExporting, exportRequests >>

\* disabled={!canCompile || $isCompiling}
CompileButtonEnabled == canCompile /\ ~isCompiling

ClickCompile == CompileButtonEnabled /\ handleCompileAircraft

\* handleCompileAircraft from the await on: the response of request i arrives
CompileResponse(i, outcome) ==
    /\ compileRequests' = RemoveAt(compileRequests, i)
    /\ IF outcome = "success"
       THEN /\ compiledAircraft' = CompiledModel(compileRequests[i])
            /\ UNCHANGED lastAlert
       ELSE /\ lastAlert' = IF outcome = "failure" THEN "Failed to compile aircraft"
                            ELSE "Error compiling aircraft"
            /\ UNCHANGED compiledAircraft
    /\ isCompiling' = FALSE
    /\ UNCHANGED << aircraft, componentMaterials, missionProfile, atmosphere,
                    isSimulating, simResult, showContextToast, contextToastText,
                    simRequests, optRequests, resultInputs, viewMode, currentModel,
                    isExporting, exportRequests >>

----------------------------------------------------------------------------
(* lib/components/ui/ExportPanel.svelte *)

\* the two stores read in the other order: $currentModel || $compiledAircraft
modelToExport_CurrentFirst ==
    IF currentModel # NoModel THEN currentModel ELSE compiledAircraft

\* $: modelToExport = $compiledAircraft || $currentModel
modelToExport ==
    IF compiledAircraft # NoModel THEN compiledAircraft ELSE currentModel

ExportFormats == {"stl", "step", "iges"}

\* apiService.exportModel resolves with a blob or rejects
ExportOutcomes == {"blob", "throws"}

\* handleExport(format) up to its await
handleExport(format) ==
    IF modelToExport = NoModel
    THEN UNCHANGED vars
    ELSE /\ Len(exportRequests) < MaxExports
         /\ isExporting' = TRUE
         /\ exportRequests' = Append(exportRequests,
                [model |-> modelToExport, format |-> format, mounted |-> TRUE])
         /\ UNCHANGED << aircraft, componentMaterials, missionProfile, atmosphere,
                         isCompiling, isSimulating, simResult, showContextToast,
                         contextToastText, lastAlert, simRequests, optRequests,
                         resultInputs, viewMode, compiledAircraft, currentModel,
                         compileRequests >>

\* {#if modelToExport} ... disabled={isExporting}, in the mounted panel
ExportButtonEnabled ==
    /\ viewMode = "assembly"
    /\ modelToExport # NoModel
    /\ ~isExporting

ClickExport(format) == ExportButtonEnabled /\ handleExport(format)

\* the finally block left out: the flag stays set after the call
ExportResponse_NoFinally(i, outcome) ==
    /\ exportRequests' = RemoveAt(exportRequests, i)
    /\ lastAlert' = IF outcome = "throws" THEN "Export failed. See console for details."
                    ELSE lastAlert
    /\ UNCHANGED << aircraft, componentMaterials, missionProfile, atmosphere,
                    isCompiling, isSimulating, simResult, showContextToast,
                    contextToastText, simRequests, optRequests, resultInputs,
                    viewMode, compiledAircraft, currentModel, compileRequests,
                    isExporting >>

\* handleExport from the await on: the call of request i resolves or rejects;
\* the download link or the alert, then isExporting = false in the panel
\* that made the call
ExportResponse(i, outcome) ==
    /\ exportRequests' = RemoveAt(exportRequests, i)
    /\ lastAlert' = IF outcome = "throws" THEN "Export failed. See console for details."
                    ELSE lastAlert
    /\ isExporting' = IF exportRequests[i].mounted THEN FALSE ELSE isExporting
    /\ UNCHANGED << aircraft, componentMaterials, missionProfile, atmosphere,
                    isCompiling, isSimulating, simResult, showContextToast,
                    contextToastText, simRequests, optRequests, resultInputs,
                    viewMode, compiledAircraft, currentModel, compileRequests >>

----------------------------------------------------------------------------
(* The structural validation session, driven through the page's controls *)

Next ==
    \/ \E c \in COMPONENTS, th \in SessionThicknesses : GenerateComponent(c, th)
    \/ \E th \in SessionThicknesses : EditWingThickness(th)
    \/ \E m \in SessionMaterials : SelectMaterial(m)
    \/ \E a \in SessionAltitudes : SetAltitude(a)
    \/ \E v \in SessionSpeeds : SetSpeed(v)
    \/ ClickRunStressAnalysis
    \/ \E i \in 1..Len(simRequests), outcome \in ApiOutcomes : SimulationResponse(i, outcome)
    \/ ClickRunNewSimulation
    \/ ClickOptimize
    \/ \E i \in 1..Len(optRequests), outcome \in ApiOutcomes : UpdateResponse(i, outcome)

Spec == Init /\ [][Next]_vars

\* the same session, with optimizeDesign also called in states where its
\* button is not shown (the function's own guard is then all that stands)
CallOptimizeDesign == optimizeDesign

NextCalls == Next \/ CallOptimizeDesign

SpecCalls == Init /\ [][NextCalls]_vars

\* handleSimulation called in any state, also where its button is disabled
\* or not shown; the mission stays as loaded
CallHandleSimulation == handleSimulation

NextHandlers ==
    \/ \E c \in COMPONENTS, th \in SessionThicknesses : GenerateComponent(c, th)
    \/ \E th \in SessionThicknesses : EditWingThickness(th)
    \/ \E m \in SessionMaterials : SelectMaterial(m)
    \/ CallHandleSimulation
    \/ \E i \in 1..Len(simRequests), outcome \in ApiOutcomes : SimulationResponse(i, outcome)
    \/ ClickRunNewSimulation

SpecHandlers == Init /\ [][NextHandlers]_vars

\* the same session started with a material id the catalog does not list
RequestMaterials == SessionMaterials \cup {"unlisted"}

InitRequest == InitWith(SessionAltitudes, SessionSpeeds, RequestMaterials)

SpecRequest == InitRequest /\ [][Next]_vars

----------------------------------------------------------------------------
(* Editing, assembly, validation and export in one session.  The editor is  *)
(* rendered in the edit view; the compile, simulation and export controls   *)
(* in the assembly view.  Mission and material stay as loaded.              *)

InitAssembly == InitWith({1000}, {900}, {"al7075"})

NextAssembly ==
    \/ viewMode = "edit" /\ \E c \in COMPONENTS, th \in SessionThicknesses :
                               GenerateComponent(c, th)
    \/ viewMode = "edit" /\ \E th \in SessionThicknesses : EditWingThickness(th)
    \/ selectComponent
    \/ goToAssembly
    \/ viewMode = "assembly" /\ ClickCompile
    \/ \E i \in 1..Len(compileRequests), outcome \in ApiOutcomes : CompileResponse(i, outcome)
    \/ viewMode = "assembly" /\ ClickRunStressAnalysis
    \/ \E i \in 1..Len(simRequests) : SimulationResponse(i, "success")
    \/ viewMode = "assembly" /\ ClickRunNewSimulation
    \/ viewMode = "assembly" /\ ClickOptimize
    \/ \E i \in 1..Len(optRequests), outcome \in ApiOutcomes : UpdateResponse(i, outcome)
    \/ \E format \in ExportFormats : ClickExport(format)
    \/ \E i \in 1..Len(exportRequests), outcome \in ExportOutcomes : ExportResponse(i, outcome)

SpecAssembly == InitAssembly /\ [][NextAssembly]_vars

----------------------------------------------------------------------------
(* The mission profile panel over the whole range of its sliders *)

\* the store starts at sea level or at 1000 m; every other altitude of the
\* grid is reached with the slider
InitMission == InitWith({0, 1000}, SpeedSlider, {"al7075"})

NextMission ==
    \/ \E a \in AltitudeSlider : SetAltitude(a)
    \/ \E v \in SpeedSlider : SetSpeed(v)
    \/ applyContext
    \/ HideToast

SpecMission == InitMission /\ [][NextMission]_vars

----------------------------------------------------------------------------
(* optimizeDesign on every FAIL result and every current thickness *)

\* thicknesses 1/D .. MaxThickness + 3, safety factors 0.01 .. 1.49
OptimizeThicknesses == 1..((MaxThickness + 3) * D)
FailSafetyFactors == 1..(PassThreshold - 1)

InitOptimize ==
    /\ \E th \in OptimizeThicknesses :
          aircraft = [c \in COMPONENTS |->
                         [model |-> IF c = "wings" THEN WingModel(th) ELSE PartModel(c)]]
    /\ componentMaterials = [wings |-> "al7075"]
    /\ missionProfile = [altitude |-> 1000, speed |-> 900, isContextApplied |-> FALSE]
    /\ atmosphere = calculateAtmosphere(missionProfile.altitude)
    /\ isCompiling = FALSE
    /\ isSimulating = FALSE
    /\ simResult \in {[success |-> TRUE, status |-> "FAIL", safety_factor |-> sf] :
                         sf \in FailSafetyFactors}
    /\ showContextToast = FALSE
    /\ contextToastText = [text |-> "", zone |-> ""]
    /\ lastAlert = "none"
    /\ simRequests = << >>
    /\ optRequests = << >>
    /\ resultInputs = CurrentInputs
    /\ viewMode = "assembly"
    /\ compiledAircraft = NoModel
    /\ currentModel = aircraft.wings.model
    /\ compileRequests = << >>
    /\ isExporting = FALSE
    /\ exportRequests = << >>

NextOptimize ==
    \/ ClickOptimize
    \/ \E i \in 1..Len(optRequests), outcome \in ApiOutcomes : UpdateResponse(i, outcome)

SpecOptimize == InitOptimize /\ [][NextOptimize]_vars

----------------------------------------------------------------------------
(* The optimize / re-simulate loop: the mission and the material stay fixed, *)
(* every request succeeds, every response arrives                            *)

LoopThicknesses == {k * D : k \in 8..(MaxThickness - 1)}
LoopSpeeds == {250, 350, 900}

InitLoop ==
    /\ \E th \in LoopThicknesses :
          aircraft = [c \in COMPONENTS |->
                         [model |-> IF c = "wings" THEN WingModel(th) ELSE PartModel(c)]]
    /\ componentMaterials = [wings |-> "al7075"]
    /\ missionProfile \in {[altitude |-> a, speed |-> v, isContextApplied |-> FALSE] :
                              a \in SessionAltitudes, v \in LoopSpeeds}
    /\ atmosphere = calculateAtmosphere(missionProfile.altitude)
    /\ isCompiling = FALSE
    /\ isSimulating = FALSE
    /\ simResult = NoResult
    /\ showContextToast = FALSE
    /\ contextToastText = [text |-> "", zone |-> ""]
    /\ lastAlert = "none"
    /\ simRequests = << >>
    /\ optRequests = << >>
    /\ resultInputs = NoInputs
    /\ viewMode = "assembly"
    /\ compiledAircraft = NoModel
    /\ currentModel = aircraft.wings.model
    /\ compileRequests = << >>
    /\ isExporting = FALSE
    /\ exportRequests = << >>

NextLoop ==
    \/ ClickRunStressAnalysis
    \/ \E i \in 1..Len(simRequests) : SimulationResponse(i, "success")
    \/ ClickOptimize
    \/ \E i \in 1..Len(optRequests) : UpdateResponse(i, "success")
    \/ ClickRunNewSimulation

SpecLoop == InitLoop /\ [][NextLoop]_vars /\ WF_vars(NextLoop)

----------------------------------------------------------------------------
(* Claims *)

WingThickness == aircraft.wings.model.parameters.thickness
HasWings == aircraft.wings.model # NoModel
FailShown == simResult # NoResult /\ simResult.status = "FAIL"
PassShown == simResult # NoResult /\ simResult.status = "PASS"
\* this step sends an updateParameters request
UpdateSent == Len(optRequests') > Len(optRequests)
SentParams == optRequests'[Len(optRequests')]

\* C1 as stated: the zone shown is LOW below 5000 m, MEDIUM from 5000 m to
\* below 10000 m, HIGH from 10000 m to below 18000 m, and STRATOSPHERE from
\* 18000 m on.
C1_ZoneLadderAsStated ==
    LET a == missionProfile.altitude
    IN atmosphere.zone =
          IF a < 5000 THEN "LOW ALTITUDE"
          ELSE IF a < 10000 THEN "MEDIUM ALTITUDE"
          ELSE IF a < 18000 THEN "HIGH ALTITUDE"
          ELSE "STRATOSPHERE"

\* C1 amended: the zone shown is LOW up to and including 5000 m, MEDIUM above
\* 5000 m up to and including 10000 m, HIGH above 10000 m up to and including
\* 18000 m, and STRATOSPHERE only above 18000 m.
C1_ZoneLadder ==
    LET a == missionProfile.altitude
    IN /\ (atmosphere.zone = "LOW ALTITUDE") <=> (a <= 5000)
       /\ (atmosphere.zone = "MEDIUM ALTITUDE") <=> (5000 < a /\ a <= 10000)
       /\ (atmosphere.zone = "HIGH ALTITUDE") <=> (10000 < a /\ a <= 18000)
       /\ (atmosphere.zone = "STRATOSPHERE") <=> (18000 < a)

\* the slider stands on a threshold and the zone below it is shown
C1_Witness ==
    /\ missionProfile.altitude = 18000
    /\ atmosphere.zone = "HIGH ALTITUDE"

\* C2: a result on display was computed from the wing parameters, mission
\* profile and material the session holds now.
C2_ResultMatchesInputs ==
    simResult # NoResult => resultInputs = CurrentInputs

\* C3: a response is stored in simResult only if its request was made from
\* the inputs the session holds when the response arrives.
C3_StaleResponseDiscarded ==
    [][(simResult' # simResult /\ simResult' # NoResult) => resultInputs' = CurrentInputs]_vars

\* C4: from a FAIL result and a thickness below 25, the thickness sent to
\* updateParameters is strictly greater than the current one.
C4_StrictIncrease ==
    [][(UpdateSent /\ FailShown /\ WingThickness < MaxThickness * D)
          => SentParams.thickness > WingThickness]_vars

\* C5: from a FAIL result and any thickness, the thickness sent to
\* updateParameters is at most 25.
C5_CappedAt25 ==
    [][(UpdateSent /\ FailShown) => SentParams.thickness <= MaxThickness * D]_vars

\* C6: from a FAIL result and any thickness, integer or fractional, the
\* thickness sent to updateParameters is not below the current one.
C6_NeverDecreases ==
    [][(UpdateSent /\ FailShown) => SentParams.thickness >= WingThickness]_vars

\* C7: a run that keeps optimizing and re-simulating from a FAIL result with
\* thickness below 25 eventually shows PASS or reports an optimization failure.
C7_LoopConverges ==
    ([]<><<ClickOptimize>>_vars /\ []<><<ClickRunStressAnalysis>>_vars)
       => <>(PassShown \/ lastAlert = "Optimization failed")

\* C8: on a FAIL result with the thickness saturated at 25, optimizeDesign
\* sends no updateParameters request (it reports a failure instead).
C8_SaturatedSendsNothing ==
    [][(FailShown /\ HasWings /\ WingThickness >= MaxThickness * D) => ~UpdateSent]_vars

\* C9: simResult changes only to null or to the value a successful
\* runSimulation response returned; the steps of optimizeDesign (sending the
\* update, handling its response) leave simResult as it is or set it to null,
\* so they never produce a PASS.
C9_NoFabricatedPass ==
    [][/\ (simResult' # simResult /\ simResult' # NoResult)
            => \E i \in 1..Len(simRequests) :
                  /\ simRequests' = RemoveAt(simRequests, i)
                  /\ simResult' = Analyze(simRequests[i])
       /\ optRequests' # optRequests
            => (simResult' = simResult \/ simResult' = NoResult)]_vars

\* an update round is over (request sent, response handled) and FAIL is still shown
C9_Witness ==
    /\ lastAlert = "AI OPTIMIZATION"
    /\ optRequests = << >>
    /\ ~isCompiling
    /\ FailShown

\* C10: an updateParameters request is sent only from a state with a FAIL
\* result and a wings model; with no result, a PASS result or no wings model
\* no request is sent and no optimization alert is raised.
C10_OptimizeOnlyOnFail ==
    [][/\ UpdateSent => (FailShown /\ HasWings)
       /\ ~(FailShown /\ HasWings)
            => (lastAlert' = "AI OPTIMIZATION" => lastAlert = "AI OPTIMIZATION")]_vars

\* an update is awaited, sent from the FAIL result that is still shown
C10_Witness ==
    /\ Len(optRequests) > 0
    /\ FailShown
    /\ HasWings

\* this step sends a runSimulation request
SimulationSent == Len(simRequests') > Len(simRequests)
SentRequest == simRequests'[Len(simRequests')]

C17_Temperature ==
    LET a == missionProfile.altitude
    IN /\ a <= 11000 => atmosphere.tempK = 2881500 - 65 * a
       /\ a > 11000 => atmosphere.tempK = 2166500

\* the slider stands in the isothermal segment
C17_Witness ==
    /\ missionProfile.altitude = 11500
    /\ atmosphere.tempK = 2166500

\* floor(t * sqrt(1.55 / SF)) counted out: the number of n >= 1 with
\* n^2 <= t^2 * 1.55 / SF (saturates above 2 * MaxThickness)
CountedFloor(th, sf) ==
    Cardinality({n \in 1..(2 * MaxThickness) : n * n * D * D * sf <= th * th * 155})

\* C18: from a FAIL result with safety factor SF and an integer thickness t
\* with t < floor(t * sqrt(1.55 / SF)) <= 25, the request carries exactly that
\* floor as thickness and the current span, rootChord, tipChord and sweepAngle.
C18_SendsFloor ==
    [][(UpdateSent /\ FailShown /\ WingThickness % D = 0)
          => LET current == aircraft.wings.model.parameters
                 n == CountedFloor(current.thickness, simResult.safety_factor)
             IN (n * D > current.thickness /\ n <= 25)
                   => /\ SentParams.thickness = n * D
                      /\ SentParams.span = current.span
                      /\ SentParams.rootChord = current.rootChord
                      /\ SentParams.tipChord = current.tipChord
                      /\ SentParams.sweepAngle = current.sweepAngle
                      /\ DOMAIN SentParams = DOMAIN current]_vars

\* thickness 12 at safety factor 0.92: the update with thickness 15 is awaited
C18_Witness ==
    /\ WingThickness = 12 * D
    /\ simResult.safety_factor = 92
    /\ Len(optRequests) > 0
    /\ optRequests[1].thickness = 15 * D

C20_RequestFields ==
    [][SimulationSent =>
          LET r == SentRequest
              listed == {i \in 1..5 : MATERIALS[i].id = componentMaterials.wings}
              entry == IF listed = {} THEN 1 ELSE CHOOSE i \in listed : TRUE
          IN /\ DOMAIN r = {"materialYield", "materialDensity", "altitude", "speed",
                            "span", "rootChord", "thickness"}
             /\ Cardinality(listed) <= 1
             /\ r.materialYield = MATERIALS[entry].yieldStrength
             /\ r.materialDensity = MATERIALS[entry].density
             /\ r.altitude = missionProfile.altitude
             /\ r.speed = missionProfile.speed
             /\ r.span = aircraft.wings.model.parameters.span
             /\ r.rootChord = aircraft.wings.model.parameters.rootChord
             /\ r.thickness = aircraft.wings.model.parameters.thickness]_vars

\* a request made with an unlisted material id carries the first entry's values
C20_Witness ==
    /\ componentMaterials.wings = "unlisted"
    /\ Len(simRequests) > 0
    /\ simRequests[1].materialYield = 503
    /\ simRequests[1].materialDensity = 2810

\* the models the aircraft store holds
CurrentModels == [c \in COMPONENTS |-> aircraft[c].model]

\* C13: a step that replaces a component's model while an assembled aircraft
\* exists clears compiledAircraft, and an assembled aircraft in the store is
\* always the assembly of the three models the store holds.
C13_CompiledFromCurrentModels ==
    [][/\ (aircraft' # aircraft /\ compiledAircraft # NoModel) => compiledAircraft' = NoModel
       /\ compiledAircraft' # NoModel =>
             \A c \in COMPONENTS : compiledAircraft'.parts[c] = aircraft'[c].model]_vars

\* C14: compiledAircraft is written only with the answer to a compile
\* request that was made with all three components complete and whose
\* models are still the ones in the store at the time of writing.
C14_FreshCompileOnly ==
    [][(compiledAircraft' # compiledAircraft /\ compiledAircraft' # NoModel) =>
          \E i \in 1..Len(compileRequests) :
              /\ compileRequests' = RemoveAt(compileRequests, i)
              /\ compiledAircraft' = CompiledModel(compileRequests[i])
              /\ \A c \in COMPONENTS : compileRequests[i][c].model # NoModel
              /\ \A c \in COMPONENTS : compileRequests[i][c].model = aircraft[c].model]_vars

\* this step sends, or ends, an exportModel call
ExportStarts == Len(exportRequests') > Len(exportRequests)
ExportReturns == Len(exportRequests') < Len(exportRequests)

\* C15: a rejected exportModel call leaves compiledAircraft, currentModel,
\* the aircraft store and simResult as they were, shows the export-failed
\* alert and puts isExporting of the panel that made the call back to false;
\* no export step, starting or returning, resolved or rejected, changes a
\* model.
C15_FailedExportLeavesState ==
    [][/\ \A i \in 1..Len(exportRequests) :
             ExportResponse(i, "throws") =>
                 /\ UNCHANGED << compiledAircraft, currentModel, aircraft, simResult >>
                 /\ lastAlert' = "Export failed. See console for details."
                 /\ exportRequests[i].mounted => ~isExporting'
       /\ (ExportStarts \/ ExportReturns) =>
             /\ UNCHANGED << compiledAircraft, currentModel, aircraft, simResult >>
             /\ \A k \in 1..Len(exportRequests') :
                    \E j \in 1..Len(exportRequests) \cup {0} :
                        exportRequests'[k].model =
                            IF j = 0 THEN modelToExport ELSE exportRequests[j].model
       /\ \A i \in 1..Len(exportRequests) :
             (exportRequests' = RemoveAt(exportRequests, i) /\ exportRequests[i].mounted)
                 => ~isExporting']_vars

\* the export of the assembled aircraft was rejected: the alert is up, the
\* flag is down, the aircraft is still there
C15_Witness ==
    /\ lastAlert = "Export failed. See console for details."
    /\ viewMode = "assembly"
    /\ ~isExporting
    /\ exportRequests = << >>
    /\ compiledAircraft # NoModel
    /\ compiledAircraft = CompiledModel(aircraft)

\* C16: while the export panel awaits its call, the run, optimize and
\* compile buttons are enabled exactly under their own conditions, none of
\* which reads isExporting, and the responses they wait for can arrive.
C16_ExportBlocksNothing ==
    isExporting =>
        /\ (ENABLED ClickRunStressAnalysis)
              <=> (simResult = NoResult /\ ~isSimulating /\ allComponentsComplete)
        /\ (ENABLED ClickOptimize)
              <=> (simResult # NoResult /\ simResult.status = "FAIL")
        /\ (ENABLED ClickCompile)
              <=> (allComponentsComplete /\ compiledAircraft = NoModel /\ ~isCompiling
                      /\ Len(compileRequests) < MaxInFlight)
        /\ Len(simRequests) > 0 => ENABLED SimulationResponse(1, "success")
        /\ Len(optRequests) > 0 => ENABLED UpdateResponse(1, "success")
        /\ Len(compileRequests) > 0 => ENABLED CompileResponse(1, "success")

\* an export requested before the aircraft was compiled is still awaited:
\* the compile finished meanwhile and a simulation is under way
C16_Witness ==
    /\ isExporting
    /\ Len(exportRequests) = 1
    /\ exportRequests[1].mounted
    /\ exportRequests[1].model = currentModel
    /\ compiledAircraft # NoModel
    /\ isSimulating
    /\ Len(simRequests) = 1

\* C21: when the updateParameters request of optimizeDesign is answered with
\* success and a model, the wings model in the store becomes that model, with
\* the thickness that was requested, and simResult becomes null.
C21_UpdateApplied ==
    [][\A i \in 1..Len(optRequests) :
          UpdateResponse(i, "success") =>
              /\ aircraft'.wings.model.parameters = optRequests[i]
              /\ simResult' = NoResult]_vars

\* the request a call of handleExport sends in this step
SentExport == exportRequests'[Len(exportRequests')]

\* C22: handleExport, called in any state, sends a request for the compiled
\* aircraft when there is one and for currentModel only when there is none;
\* with neither, isExporting is false and the call sends nothing and leaves
\* isExporting false.
C22_ExportTarget ==
    \A format \in ExportFormats :
        /\ compiledAircraft # NoModel =>
              ~ENABLED (handleExport(format) /\ ExportStarts
                           /\ SentExport.model # compiledAircraft)
        /\ compiledAircraft = NoModel =>
              ~ENABLED (handleExport(format) /\ ExportStarts
                           /\ SentExport.model # currentModel)
        /\ (compiledAircraft = NoModel /\ currentModel = NoModel) =>
              /\ ~isExporting
              /\ ~ENABLED (handleExport(format)
                              /\ (exportRequests' # exportRequests \/ isExporting'))

\* the compiled aircraft is being exported while the editor's model is there too
C22_Witness ==
    /\ Len(exportRequests) = 1
    /\ compiledAircraft # NoModel
    /\ currentModel # NoModel
    /\ exportRequests[1].model = compiledAircraft
    /\ exportRequests[1].model # currentModel

\* C23: in a state without a wings model no step, a call of handleSimulation
\* included, sends a runSimulation request, sets isSimulating or changes
\* simResult; every runSimulation request is sent from a state with a wings
\* model.
C23_NoWingsNoRequest ==
    [][/\ ~HasWings =>
             /\ simRequests' = simRequests
             /\ ~isSimulating /\ ~isSimulating'
             /\ simResult' = simResult
       /\ SimulationSent => HasWings]_vars

\* handleSimulation was called without wings: the alert is up, nothing is awaited
C23_Witness ==
    /\ ~HasWings
    /\ lastAlert = "Please generate wings first."
    /\ ~isSimulating
    /\ simRequests = << >>
    /\ simResult = NoResult

\* C24: at most one runSimulation request is awaited, isSimulating is true
\* exactly while one is, and so it is false again once the request has
\* ended, whatever its outcome.
C24_OneSimulationInFlight ==
    /\ Len(simRequests) <= 1
    /\ isSimulating <=> (Len(simRequests) = 1)

\* a run has ended with a thrown error: nothing is awaited, the flag is down
C24_Witness ==
    /\ lastAlert = "Simulation error"
    /\ simRequests = << >>
    /\ ~isSimulating

\* C26: a runSimulation request that ends with success = false or with a
\* thrown error leaves simResult null and isSimulating false, and whatever
\* simResult holds is a response with success = true.
C26_FailedRunStoresNothing ==
    [][/\ \A i \in 1..Len(simRequests) :
             (SimulationResponse(i, "failure") \/ SimulationResponse(i, "throws")) =>
                 /\ simResult' = NoResult
                 /\ ~isSimulating'
       /\ simResult' # NoResult => simResult'.success]_vars

\* a run has ended with success = false: no result is shown
C26_Witness ==
    /\ lastAlert = "Simulation failed"
    /\ simResult = NoResult
    /\ ~isSimulating
    /\ simRequests = << >>

\* C27: an updateParameters request of optimizeDesign that ends with
\* success = false or with a thrown error leaves the aircraft store and
\* simResult as they were and clears isCompiling.
C27_FailedUpdateLeavesState ==
    [][\A i \in 1..Len(optRequests) :
          (UpdateResponse(i, "failure") \/ UpdateResponse(i, "throws")) =>
              /\ UNCHANGED << aircraft, simResult >>
              /\ ~isCompiling']_vars

\* one of two updates has ended: the flag is down, the FAIL result and the
\* wings are still there
C27_Witness ==
    /\ Len(optRequests) = 1
    /\ ~isCompiling
    /\ FailShown
    /\ HasWings
    /\ aircraft.wings.model.parameters.thickness # optRequests[1].thickness

C29_ContextStaysApplied ==
    /\ [][missionProfile.isContextApplied => missionProfile'.isContextApplied]_vars
    /\ [](missionProfile.isContextApplied =>
             /\ ENABLED (\E a \in AltitudeSlider : SetAltitude(a))
             /\ ENABLED (\E v \in SpeedSlider : SetSpeed(v)))

\* the context is applied, its toast is gone, and the sliders stand where
\* the page did not load them
C29_Witness ==
    /\ missionProfile.isContextApplied
    /\ ~showContextToast
    /\ missionProfile.altitude = 25000
    /\ missionProfile.speed = 1000
    /\ contextToastText.zone = "LOW ALTITUDE"

====
